---- MODULE Spec2Model ----
(***************************************************************************)
(* Model of src/main.py: the batch job that links recently edited tasks    *)
(* to their Weekly and Monthly progress pages.                             *)
(*                                                                         *)
(* The record store (the three databases and their query / patch           *)
(* endpoints) is the environment; main(), get_unlinked_tasks(),            *)
(* extract_task_properties(), find_weekly_page_with_year(),                *)
(* find_monthly_page_with_year() and update_task_relations() are the       *)
(* program.  One run of main() is a sequence of steps, one per HTTP        *)
(* request, so that request failures and the order of requests are         *)
(* visible.  Time is counted in minutes.  The check of the environment     *)
(* variables at import is the step ConfigExit.                             *)
(***************************************************************************)
EXTENDS Integers, Sequences, FiniteSets, TLC

\* ------------------------------------------------------------------ bounds
MaxTasks == 2
MaxRuns == 2
\* failed requests and user edits, together, in one behaviour
MaxEvents == 1
MaxTime == 120

\* ------------------------------------------------------- program constants
\* timedelta(minutes=65) in get_unlinked_tasks
WINDOW_MINUTES == 65
\* the external schedule: runs start at most this many minutes apart
Cadence == 60
TickStep == Cadence

TaskIds == 1..MaxTasks
\* Python's None for a page id
NoId == "None"

\* ------------------------------------------------- shapes of a task record
\* A formula property as the store returns it:
\*   absent   the property key is missing from "properties"
\*   null     the property value is null
\*   number   {"formula": {"type": "number", "number": num}}
\*   numnull  {"formula": {"type": "number", "number": null}}
\*   string   {"formula": {"type": "string", "string": str}}
Formula(shape, num, str) == [shape |-> shape, num |-> num, str |-> str]
Absent == Formula("absent", 0, "")
Null == Formula("null", 0, "")
Number(n) == Formula("number", n, "")
NumNull == Formula("numnull", 0, "")
String(s) == Formula("string", 0, s)

\* The title property:
\*   text     {"title": [{"plain_text": ...}]}
\*   absent   key missing;  empty  {"title": []}
\*   badelem  {"title": [{}]}   (no "plain_text" key)
\*   null     the property value is null
TitleShapes == {"text", "absent", "empty", "badelem", "null"}
YearShapes == {Number(2025), Number(0), NumNull, String("2025"), Absent, Null}
WeekShapes == {String("41"), String(""), Number(41), Absent}
MonthShapes == {String("October"), String(""), Absent}

Props(title, year, week, month) ==
    [title |-> title, year |-> year, week |-> week, month |-> month]

\* every combination of property shapes
AllProps ==
    {Props(ti, y, w, m) : ti \in TitleShapes, y \in YearShapes,
                          w \in WeekShapes, m \in MonthShapes}

\* a short list used for whole batches
\* (both pages exist; only the monthly page; neither; null title)
BatchProps ==
    { Props("text", Number(2025), String("41"), String("October")),
      Props("absent", Number(2024), String("41"), String("October")),
      Props("text", Number(2024), String("41"), String("November")),
      Props("null", Number(2025), String("41"), String("October")) }

GoodProps == Props("text", Number(2025), String("41"), String("October"))

\* ------------------------------------------------- reference collections
Ref(id, title, year) == [id |-> id, title |-> title, year |-> year]
WeeklyRefs == <<Ref("W1", "41", 2025), Ref("W2", "42", 2024)>>
MonthlyRefs == <<Ref("M1", "October", 2025), Ref("M2", "October", 2024)>>

\* weekly collections of up to two records, duplicates of a key included
WeeklyRecords ==
    {Ref(id, ti, y) : id \in {"W1", "W2"}, ti \in {"41", "42"}, y \in {2024, 2025}}
WeeklyCollections ==
    {<<>>} \cup {<<a>> : a \in WeeklyRecords}
           \cup {<<a, b>> : a \in {r \in WeeklyRecords : r.id = "W1"},
                            b \in {r \in WeeklyRecords : r.id = "W2"}}
MonthlyRecords ==
    {Ref(id, ti, y) : id \in {"M1", "M2"}, ti \in {"October", "November"},
                      y \in {2024, 2025}}
MonthlyCollections ==
    {<<a, b>> : a \in {r \in MonthlyRecords : r.id = "M1"},
                b \in {r \in MonthlyRecords : r.id = "M2"}}

VARIABLES
    now,        \* the clock, in minutes
    lastRun,    \* the time the latest run started (0: the schedule's start)
    runs,       \* runs started so far
    events,     \* failed requests and user edits so far
    tasks,      \* the task collection: TaskIds -> record
    weeklyDB,   \* the Weekly Progress collection, in the store's order
    monthlyDB,  \* the Monthly Progress collection, in the store's order
    prevRun,    \* the time the run before the latest one started
    failed,     \* tasks a request failed for in their latest run
    pc,         \* main(): idle (no process), task, weekly, monthly, update, exited
    lastExit,   \* the exit status of the process: none, 0, 1 (sys.exit(1) at
                \* import, or an uncaught exception)
    queue,      \* tasks_to_process
    i,          \* index into queue of the task being processed
    cur,        \* (year, week_text, month_text) of the current task
    wid,        \* weekly_page_id
    mid,        \* monthly_page_id
    outcome,    \* this run: TaskIds -> none | Skipped | Linked
    extracted,  \* this run: what extraction returned for each task
    reqs,       \* this run: the requests issued, in order
    pre,        \* the relations of every task when this run started
    config      \* the required environment variables that hold a value

vars == <<now, lastRun, runs, events, tasks, weeklyDB, monthlyDB, pc,
          lastExit, queue, i, cur, wid, mid, outcome, extracted, reqs, pre,
          prevRun, failed, config>>

\* ---------------------------------------------------------- configuration
ConfigKeys == {"NOTION_API_KEY", "TASKS_DB_ID", "WEEKLY_DB_ID", "MONTHLY_DB_ID"}

\* all([NOTION_API_KEY, TASKS_DB_ID, WEEKLY_DB_ID, MONTHLY_DB_ID])
ConfigOk == config = ConfigKeys

\* ------------------------------------------------------------- extraction
\* the (None, None, None) of extract_task_properties
NoneTriple == [ok |-> FALSE, year |-> 0, week_text |-> "", month_text |-> ""]

\* .get("formula", {}) on a null property raises AttributeError, and
\* int(None) raises TypeError: both are caught by the function's except.
extract_task_properties(p) ==
    IF p.year.shape = "null" THEN NoneTriple
    ELSE IF p.year.shape \notin {"number", "numnull"} THEN NoneTriple
    ELSE IF p.year.shape = "numnull" THEN NoneTriple
    ELSE IF p.week.shape = "null" THEN NoneTriple
    ELSE IF p.week.shape # "string" \/ p.week.str = "" THEN NoneTriple
    ELSE IF p.month.shape = "null" THEN NoneTriple
    ELSE IF p.month.shape # "string" \/ p.month.str = "" THEN NoneTriple
    ELSE [ok |-> TRUE, year |-> p.year.num, week_text |-> p.week.str,
          month_text |-> p.month.str]

\* AllTruthy without the test: every task goes on to resolution
AllTruthyUntested(e) == TRUE

\* all([year, week_text, month_text])
AllTruthy(e) == e.ok /\ e.year # 0 /\ e.week_text # "" /\ e.month_text # ""

\* TitleRead indexing properties[TASK_PROP_TITLE] without the guard
TitleReadUnguarded(shape) ==
    CASE shape = "text" -> "ok"
      [] shape = "absent" -> "KeyError"
      [] shape = "empty" -> "KeyError"
      [] shape = "badelem" -> "KeyError"
      [] shape = "null" -> "AttributeError"

\* The title read of main(): ok, a caught KeyError, or an AttributeError,
\* which the except clause (KeyError, IndexError, TypeError) does not catch.
TitleRead(shape) ==
    CASE shape = "text" -> "ok"
      [] shape = "absent" -> "ok"
      [] shape = "empty" -> "ok"
      [] shape = "badelem" -> "KeyError"
      [] shape = "null" -> "AttributeError"

\* --------------------------------------------------------------- resolver
\* Query with the year predicate left out of the filter
QueryTitleOnly(db, title, year) ==
    SelectSeq(db, LAMBDA r : r.title = title)

\* the store's answer to AND(title equals t, year equals y), in its order
Query(db, title, year) ==
    SelectSeq(db, LAMBDA r : r.title = title /\ r.year = year)

FirstId(results) == IF results # <<>> THEN results[1].id ELSE NoId

\* find_weekly_page_with_year reading the results whatever the status
find_weekly_page_unchecked(week_text, year, ok) ==
    FirstId(Query(weeklyDB, week_text, year))

find_weekly_page_with_year(week_text, year, ok) ==
    IF ~ok THEN NoId ELSE FirstId(Query(weeklyDB, week_text, year))

\* find_monthly_page_with_year matching the month text alone
find_monthly_page_by_title(month_text, year, ok) ==
    IF ~ok THEN NoId ELSE FirstId(QueryTitleOnly(monthlyDB, month_text, year))

find_monthly_page_with_year(month_text, year, ok) ==
    IF ~ok THEN NoId ELSE FirstId(Query(monthlyDB, month_text, year))

\* ----------------------------------------------------------------- writer
\* Payload with the weekly id written into both relation fields
PayloadCopied(weekly_page_id, monthly_page_id) ==
    [weekly |-> weekly_page_id, monthly |-> weekly_page_id]

\* properties_to_update: NoId stands for a field the payload does not name
Payload(weekly_page_id, monthly_page_id) ==
    [weekly |-> weekly_page_id, monthly |-> monthly_page_id]

\* EmptyPayload with the early return left out
EmptyPayloadNever(p) == FALSE

\* if not properties_to_update: return
EmptyPayload(p) == p.weekly = NoId /\ p.monthly = NoId

\* ApplyPatch adding the named ids to what the relations hold
ApplyPatchAppend(rec, p, time) ==
    [rec EXCEPT !.weekly = IF p.weekly # NoId THEN @ \o <<p.weekly>> ELSE @,
                !.monthly = IF p.monthly # NoId THEN @ \o <<p.monthly>> ELSE @,
                !.edited = time]

\* ApplyPatch for a payload that also names the due date, clearing it
ApplyPatchClearsDue(rec, p, time) ==
    [rec EXCEPT !.weekly = IF p.weekly # NoId THEN <<p.weekly>> ELSE @,
                !.monthly = IF p.monthly # NoId THEN <<p.monthly>> ELSE @,
                !.due = FALSE,
                !.edited = time]

\* the store applying a PATCH: the named relations are replaced and the
\* page's last_edited_time becomes the time of the request
ApplyPatch(rec, p, time) ==
    [rec EXCEPT !.weekly = IF p.weekly # NoId THEN <<p.weekly>> ELSE @,
                !.monthly = IF p.monthly # NoId THEN <<p.monthly>> ELSE @,
                !.edited = time]

\* -------------------------------------------------------------- discovery
\* Eligible without the "Weekly Link is empty" predicate
EligibleAnyLink(rec, time) ==
    /\ rec.due
    /\ rec.edited >= time - WINDOW_MINUTES

\* Eligible with a window shorter than the schedule's cadence
EligibleShortWindow(rec, time) ==
    /\ rec.due
    /\ rec.weekly = <<>>
    /\ rec.edited >= time - (WINDOW_MINUTES - 10)

\* the filter of get_unlinked_tasks, as the store evaluates it
Eligible(rec, time) ==
    /\ rec.due
    /\ rec.weekly = <<>>
    /\ rec.edited >= time - WINDOW_MINUTES

\* get_unlinked_tasks without the status check
get_unlinked_tasks_unchecked(ok) ==
    SelectSeq([k \in 1..MaxTasks |-> k], LAMBDA t : Eligible(tasks[t], now))

get_unlinked_tasks(ok) ==
    IF ~ok THEN <<>>
    ELSE SelectSeq([k \in 1..MaxTasks |-> k], LAMBDA t : Eligible(tasks[t], now))

\* one request of a run: for a resolver query, id is the page id the function
\* returned; for a PATCH, weekly and monthly are the payload's fields
Req(op, task, ok, id, payload) ==
    [op |-> op, task |-> task, ok |-> ok, id |-> id, weekly |-> payload.weekly,
     monthly |-> payload.monthly]

NoPayload == Payload(NoId, NoId)

Relations(rec) == [weekly |-> rec.weekly, monthly |-> rec.monthly]

\* ------------------------------------------------------------------- Init
TaskRec(p) ==
    [title |-> p.title, year |-> p.year, week |-> p.week, month |-> p.month,
     due |-> TRUE, edited |-> 0, weekly |-> <<>>, monthly |-> <<>>]

\* no process is running: its memory and the record of its run are gone
NoProcess ==
    /\ pc = "idle" /\ lastExit = "none"
    /\ queue = <<>> /\ i = 1
    /\ cur = NoneTriple /\ wid = NoId /\ mid = NoId
    /\ outcome = [t \in TaskIds |-> "none"]
    /\ extracted = [t \in TaskIds |-> NoneTriple]
    /\ reqs = <<>>
    /\ pre = [t \in TaskIds |-> Relations(tasks[t])]

InitRest ==
    /\ now = 0 /\ lastRun = 0 /\ prevRun = 0
    /\ failed = {}
    /\ NoProcess

\* one task of any shape, the others well formed: the schedule's last run,
\* with no failed request and no user edit
InitShapes ==
    /\ runs = MaxRuns - 1 /\ events = MaxEvents /\ config = ConfigKeys
    /\ \E p \in AllProps :
         tasks = [t \in TaskIds |-> TaskRec(IF t = 1 THEN p ELSE GoodProps)]
    /\ weeklyDB = WeeklyRefs /\ monthlyDB = MonthlyRefs

\* a batch of tasks from the short list
InitBatch ==
    /\ runs = 0 /\ events = 0 /\ config = ConfigKeys
    /\ \E f \in [TaskIds -> BatchProps] : tasks = [t \in TaskIds |-> TaskRec(f[t])]
    /\ weeklyDB = WeeklyRefs /\ monthlyDB = MonthlyRefs

\* well formed tasks against any weekly or any monthly collection: the
\* schedule's last run, with no failed request and no user edit
InitRefs ==
    /\ runs = MaxRuns - 1 /\ events = MaxEvents /\ config = ConfigKeys
    /\ tasks = [t \in TaskIds |-> TaskRec(GoodProps)]
    /\ \/ weeklyDB \in WeeklyCollections /\ monthlyDB = MonthlyRefs
       \/ weeklyDB = WeeklyRefs /\ monthlyDB \in MonthlyCollections

\* a required environment variable is unset or empty
InitConfig ==
    /\ runs = MaxRuns - 1 /\ events = MaxEvents
    /\ config \in (SUBSET ConfigKeys) \ {ConfigKeys}
    /\ tasks = [t \in TaskIds |-> TaskRec(GoodProps)]
    /\ weeklyDB = WeeklyRefs /\ monthlyDB = MonthlyRefs

Init == (InitShapes \/ InitBatch \/ InitRefs \/ InitConfig) /\ InitRest

\* ---------------------------------------------------------------- actions
\* a request succeeds, or fails (transport error or non-200 status)
Outcomes == IF events < MaxEvents THEN {TRUE, FALSE} ELSE {TRUE}
Count(ok) == IF ok THEN events ELSE events + 1

Store == <<tasks, weeklyDB, monthlyDB>>
Clock == <<now, lastRun, prevRun, runs>>

\* the check at import: a missing variable ends the process with status 1
\* before main() is entered
ConfigExit ==
    /\ pc = "idle" /\ runs < MaxRuns /\ ~ConfigOk
    /\ pc' = "exited" /\ lastExit' = "1"
    /\ runs' = runs + 1 /\ lastRun' = now /\ prevRun' = lastRun
    /\ UNCHANGED <<now, Store, events, queue, i, cur, wid, mid, outcome,
                   extracted, reqs, pre, failed, config>>

\* main(): tasks_to_process = get_unlinked_tasks(); an empty list ends the run
Discovery ==
    /\ \E ok \in Outcomes :
         LET found == get_unlinked_tasks(ok) IN
         /\ events' = Count(ok)
         /\ queue' = found
         /\ reqs' = <<Req("discover", 0, ok, NoId, NoPayload)>>
         /\ IF found = <<>>
              THEN pc' = "exited" /\ lastExit' = "0"
              ELSE pc' = "task" /\ lastExit' = "none"
    /\ lastRun' = now /\ prevRun' = lastRun /\ i' = 1
    /\ pre' = [t \in TaskIds |-> Relations(tasks[t])]
    /\ UNCHANGED <<now, Store, cur, wid, mid, outcome, extracted, failed, config>>

\* the schedule starts a process whose configuration is complete
StartRun ==
    /\ pc = "idle" /\ runs < MaxRuns /\ ConfigOk
    /\ runs' = runs + 1
    /\ Discovery

\* the head of the loop body: the title read and the extraction
ProcessTask ==
    /\ pc = "task" /\ i <= Len(queue)
    /\ LET t == queue[i]
           r == TitleRead(tasks[t].title)
           e == extract_task_properties(tasks[t])
       IN  IF r = "AttributeError"
             THEN /\ pc' = "exited" /\ lastExit' = "1"
                  /\ UNCHANGED <<i, cur, outcome, extracted>>
           ELSE IF r = "KeyError"
             THEN /\ outcome' = [outcome EXCEPT ![t] = "Skipped"]
                  /\ i' = i + 1
                  /\ UNCHANGED <<pc, lastExit, cur, extracted>>
           ELSE IF ~AllTruthy(e)
             THEN /\ outcome' = [outcome EXCEPT ![t] = "Skipped"]
                  /\ extracted' = [extracted EXCEPT ![t] = e]
                  /\ i' = i + 1
                  /\ UNCHANGED <<pc, lastExit, cur>>
           ELSE /\ cur' = e
                /\ extracted' = [extracted EXCEPT ![t] = e]
                /\ pc' = "weekly"
                /\ UNCHANGED <<i, lastExit, outcome>>
    /\ UNCHANGED <<Clock, Store, events, queue, wid, mid, reqs, pre, failed,
                   config>>

\* the loop is exhausted: main() returns
FinishRun ==
    /\ pc = "task" /\ i > Len(queue)
    /\ pc' = "exited" /\ lastExit' = "0"
    /\ UNCHANGED <<Clock, Store, events, queue, i, cur, wid, mid, outcome,
                   extracted, reqs, pre, failed, config>>

\* FindWeekly asking again after a failed query
FindWeeklyRetry ==
    /\ pc = "weekly"
    /\ \E ok \in Outcomes :
         /\ events' = Count(ok)
         /\ wid' = find_weekly_page_with_year(cur.week_text, cur.year, ok)
         /\ reqs' = Append(reqs, Req("weekly", queue[i], ok, wid', NoPayload))
         /\ pc' = IF ok THEN "monthly" ELSE "weekly"
    /\ UNCHANGED <<Clock, Store, lastExit, queue, i, cur, mid, outcome,
                   extracted, pre, failed, config>>

FindWeekly ==
    /\ pc = "weekly"
    /\ \E ok \in Outcomes :
         /\ events' = Count(ok)
         /\ wid' = find_weekly_page_with_year(cur.week_text, cur.year, ok)
         /\ reqs' = Append(reqs, Req("weekly", queue[i], ok, wid', NoPayload))
    /\ pc' = "monthly"
    /\ UNCHANGED <<Clock, Store, lastExit, queue, i, cur, mid, outcome,
                   extracted, pre, failed, config>>

FindMonthly ==
    /\ pc = "monthly"
    /\ \E ok \in Outcomes :
         /\ events' = Count(ok)
         /\ mid' = find_monthly_page_with_year(cur.month_text, cur.year, ok)
         /\ reqs' = Append(reqs, Req("monthly", queue[i], ok, mid', NoPayload))
    /\ pc' = "update"
    /\ UNCHANGED <<Clock, Store, lastExit, queue, i, cur, wid, outcome,
                   extracted, pre, failed, config>>

\* update_task_relations(task_id, weekly_page_id, monthly_page_id)
UpdateRelations ==
    /\ pc = "update"
    /\ LET t == queue[i]
           p == Payload(wid, mid)
       IN  IF EmptyPayload(p)
             THEN UNCHANGED <<tasks, reqs, events>>
             ELSE \E ok \in Outcomes :
                    /\ events' = Count(ok)
                    /\ reqs' = Append(reqs, Req("patch", t, ok, NoId, p))
                    /\ tasks' = IF ok
                                  THEN [tasks EXCEPT ![t] = ApplyPatch(@, p, now)]
                                  ELSE tasks
    /\ outcome' = [outcome EXCEPT ![queue[i]] = "Linked"]
    /\ i' = i + 1 /\ pc' = "task"
    /\ cur' = NoneTriple /\ wid' = NoId /\ mid' = NoId
    /\ UNCHANGED <<Clock, weeklyDB, monthlyDB, lastExit, queue, extracted, pre,
                   failed, config>>

Elems(seq) == {seq[k] : k \in 1..Len(seq)}

\* the tasks this run failed: every candidate when discovery failed, else
\* the tasks one of whose requests failed
FailedInRun ==
    IF reqs = <<>> THEN {}
    ELSE IF ~reqs[1].ok
      THEN {t \in TaskIds : Eligible(tasks[t], lastRun)}
      ELSE {reqs[k].task : k \in {j \in 2..Len(reqs) : ~reqs[j].ok}}

\* the process is gone, and with it its memory
ProcessExit ==
    /\ pc = "exited"
    /\ failed' = (failed \ Elems(queue)) \cup FailedInRun
    /\ pc' = "idle" /\ lastExit' = "none"
    /\ queue' = <<>> /\ i' = 1
    /\ cur' = NoneTriple /\ wid' = NoId /\ mid' = NoId
    /\ outcome' = [t \in TaskIds |-> "none"]
    /\ extracted' = [t \in TaskIds |-> NoneTriple]
    /\ reqs' = <<>>
    /\ pre' = [t \in TaskIds |-> Relations(tasks[t])]
    /\ UNCHANGED <<Clock, Store, events, config>>

\* ------------------------------------------------------------ environment
\* time passes before a run; the schedule starts a run within Cadence
Tick ==
    /\ pc = "idle" /\ runs < MaxRuns
    /\ now + TickStep <= MaxTime
    /\ now + TickStep - lastRun <= Cadence
    /\ now' = now + TickStep
    /\ UNCHANGED <<lastRun, prevRun, runs, events, Store, pc, lastExit,
                   queue, i, cur, wid, mid, outcome, extracted, reqs, pre, failed,
                   config>>

\* a user edits a task before a run: the store stamps last_edited_time
EditKinds == {"touch", "clearDue", "linkWeekly", "linkMonthly"}

Edited(rec, kind, time) ==
    [rec EXCEPT !.edited = time,
                !.due = IF kind = "clearDue" THEN FALSE ELSE @,
                !.weekly = IF kind = "linkWeekly" THEN <<"W2">> ELSE @,
                !.monthly = IF kind = "linkMonthly" THEN <<"M2">> ELSE @]

UserEdit ==
    /\ pc = "idle" /\ runs < MaxRuns /\ events < MaxEvents
    /\ \E t \in TaskIds, kind \in EditKinds :
         /\ tasks' = [tasks EXCEPT ![t] = Edited(@, kind, now)]
         /\ pre' = [pre EXCEPT ![t] = Relations(tasks'[t])]
    /\ events' = events + 1
    /\ UNCHANGED <<now, lastRun, prevRun, runs, weeklyDB, monthlyDB, pc,
                   lastExit, queue, i, cur, wid, mid, outcome, extracted,
                   reqs, failed, config>>

Next ==
    \/ ConfigExit
    \/ StartRun
    \/ ProcessTask
    \/ FinishRun
    \/ FindWeekly
    \/ FindMonthly
    \/ UpdateRelations
    \/ ProcessExit
    \/ Tick
    \/ UserEdit

Spec == Init /\ [][Next]_vars

\* ------------------------------------------------- the schedule without end
\* The schedule goes on for ever, no request fails and no user edits a task.
\* The clock is read relative to the present: as time passes every stamp
\* moves TickStep into the past, and a stamp older than the discovery window
\* is kept at Horizon. A run starts Cadence after the start of the one
\* before, the first one at once; runs counts the runs up to MaxRuns + 1 and
\* stays there.
Horizon == WINDOW_MINUTES + TickStep

\* how long before the first run a task was last modified: minutes before
\* it, half a cadence before it, or longer ago than the window
StartAges == {WINDOW_MINUTES - Cadence - 3, Cadence \div 2, WINDOW_MINUTES + 5}

\* the monthly collection as it stands, or with two records of one key
QuietMonthly ==
    {MonthlyRefs, <<Ref("M1", "October", 2024), Ref("M2", "October", 2024)>>}

Recede(stamp) ==
    IF stamp - TickStep < now - Horizon THEN now - Horizon ELSE stamp - TickStep

InitQuiet ==
    /\ runs = 0 /\ events = MaxEvents /\ config = ConfigKeys
    /\ now = 0 /\ lastRun = now - Cadence /\ prevRun = now - Cadence
    /\ failed = {}
    /\ \E f \in [TaskIds -> BatchProps], age \in [TaskIds -> StartAges] :
         tasks = [t \in TaskIds |->
                    [TaskRec(f[t]) EXCEPT !.edited = now - age[t]]]
    /\ weeklyDB = WeeklyRefs /\ monthlyDB \in QuietMonthly
    /\ NoProcess

ScheduledRun ==
    /\ pc = "idle" /\ ConfigOk
    /\ now - lastRun = Cadence
    /\ runs' = IF runs <= MaxRuns THEN runs + 1 ELSE runs
    /\ Discovery

PastRecedes ==
    /\ pc = "idle"
    /\ now - Recede(lastRun) <= Cadence
    /\ lastRun' = Recede(lastRun) /\ prevRun' = Recede(prevRun)
    /\ tasks' = [t \in TaskIds |-> [tasks[t] EXCEPT !.edited = Recede(@)]]
    /\ UNCHANGED <<now, runs, events, weeklyDB, monthlyDB, pc, lastExit,
                   queue, i, cur, wid, mid, outcome, extracted, reqs, pre, failed,
                   config>>

QuietNext ==
    \/ ScheduledRun
    \/ ProcessTask
    \/ FinishRun
    \/ FindWeekly
    \/ FindMonthly
    \/ UpdateRelations
    \/ ProcessExit
    \/ PastRecedes

\* the schedule starts run after run, and a started process runs to its end
QuiesceSpec == InitQuiet /\ [][QuietNext]_vars /\ WF_vars(QuietNext)

\* ================================================================== claims
\* what the log of the current run says about task t
ReqsOf(t, op) == {k \in 1..Len(reqs) : reqs[k].task = t /\ reqs[k].op = op}
Patched(t) == ReqsOf(t, "patch") # {}
Queried(t) == ReqsOf(t, "weekly") # {} \/ ReqsOf(t, "monthly") # {}
\* the id a resolver returned for t in this run (NoId: not found or no query)
Resolved(t, op) ==
    IF ReqsOf(t, op) = {} THEN NoId ELSE reqs[CHOOSE k \in ReqsOf(t, op) : TRUE].id
Running == pc # "idle" /\ ConfigOk
DiscoveryOk == Running /\ reqs[1].ok
Discovered == Elems(queue)

\* the decimal text of a natural number, as str(n) writes it
DigitText == <<"0", "1", "2", "3", "4", "5", "6", "7", "8", "9">>
RECURSIVE DecText(_)
DecText(n) ==
    IF n < 10 THEN DigitText[n + 1]
    ELSE DecText(n \div 10) \o DigitText[(n % 10) + 1]

\* the task with its numeric Week Number result replaced by the text of it
TextTwin(rec) == [rec EXCEPT !.week = String(DecText(rec.week.num))]

\* C1: a discovered task whose Week Number formula yields the number n, and
\* whose year and month are extractable, is extracted to the same week_text
\* as its twin holding the text of n, and is not skipped, as the twin is not.
C1_WeekNormalization ==
    \A t \in Discovered :
        (/\ tasks[t].week.shape = "number"
         /\ TitleRead(tasks[t].title) = "ok"
         /\ AllTruthy(extract_task_properties(TextTwin(tasks[t]))))
        => /\ extract_task_properties(tasks[t]).week_text
                = extract_task_properties(TextTwin(tasks[t])).week_text
           /\ outcome[t] # "Skipped"

\* a field of the three is missing for t
MissingField(t) == ~AllTruthy(extract_task_properties(tasks[t]))

\* C2: when a run has ended, every discovered task with a missing year,
\* week text or month text ended in Skipped, and at no time was a PATCH
\* issued for it.
C2_MissingSkipped ==
    \A t \in Discovered :
        MissingField(t)
        => /\ ~Patched(t)
           /\ (pc = "exited" => outcome[t] = "Skipped")

\* the records of db holding exactly the key (title, year)
Matches(db, title, year) ==
    {k \in 1..Len(db) : db[k].title = title /\ db[k].year = year}

ExactMatch(db, title, year, id) ==
    /\ id # NoId => \E k \in Matches(db, title, year) : db[k].id = id
    /\ Cardinality(Matches(db, title, year)) = 1
         => \A k \in Matches(db, title, year) : id = db[k].id
    /\ Matches(db, title, year) = {} => id = NoId

\* C3: after a successful resolver query, the id returned is that of a record
\* equal to the request in both title and year; it is the record's id when
\* exactly one record matches, and None when none does.
C3_ExactMatch ==
    /\ (pc = "monthly" /\ reqs[Len(reqs)].ok)
         => ExactMatch(weeklyDB, cur.week_text, cur.year, wid)
    /\ (pc = "update" /\ reqs[Len(reqs)].ok)
         => ExactMatch(monthlyDB, cur.month_text, cur.year, mid)

\* both resolvers returned the match although a record differing from the
\* request in year only stands in each collection
C3_Witness ==
    /\ pc = "update" /\ reqs[Len(reqs)].ok /\ reqs[Len(reqs) - 1].ok
    /\ wid # NoId /\ mid # NoId
    /\ \E k \in 1..Len(weeklyDB) :
         weeklyDB[k].title = cur.week_text /\ weeklyDB[k].year # cur.year
    /\ \E k \in 1..Len(monthlyDB) :
         monthlyDB[k].title = cur.month_text /\ monthlyDB[k].year # cur.year

\* C4: a task both of whose resolutions yielded no id gets no PATCH, and its
\* relations are what they were when the run started.
C4_NoMatchNoUpdate ==
    \A t \in Discovered :
        (outcome[t] = "Linked" /\ Resolved(t, "weekly") = NoId
                               /\ Resolved(t, "monthly") = NoId)
        => ~Patched(t) /\ Relations(tasks[t]) = pre[t]

C4_Witness ==
    \E t \in Discovered :
        /\ outcome[t] = "Linked"
        /\ Resolved(t, "weekly") = NoId /\ Resolved(t, "monthly") = NoId
        /\ \E k \in ReqsOf(t, "weekly") : reqs[k].ok

\* C5: a PATCH names exactly the relations whose resolution returned an id;
\* a task for which only one of the two resolved keeps the other relation.
C5_PartialMatch ==
    \A t \in Discovered :
        /\ \A k \in ReqsOf(t, "patch") :
             /\ reqs[k].weekly = Resolved(t, "weekly")
             /\ reqs[k].monthly = Resolved(t, "monthly")
        /\ outcome[t] = "Linked"
             => /\ Resolved(t, "weekly") = NoId => tasks[t].weekly = pre[t].weekly
                /\ Resolved(t, "monthly") = NoId => tasks[t].monthly = pre[t].monthly

\* only the monthly page resolved and the PATCH went through
C5_Witness ==
    \E t \in Discovered :
        /\ outcome[t] = "Linked"
        /\ Resolved(t, "weekly") = NoId /\ Resolved(t, "monthly") # NoId
        /\ \E k \in ReqsOf(t, "patch") : reqs[k].ok
        /\ tasks[t].monthly = <<Resolved(t, "monthly")>>
        /\ tasks[t].weekly = <<>>

\* C6: a task whose weekly relation is not empty when a run's discovery
\* executes is not selected by that run, no request of the run names it, and
\* its relations stay what they were.
C6_LinkedNotSelected ==
    \A t \in TaskIds :
        (Running /\ pre[t].weekly # <<>>)
        => /\ t \notin Discovered
           /\ ~Queried(t) /\ ~Patched(t)
           /\ Relations(tasks[t]) = pre[t]

\* a second run passes over the task the first run linked
C6_Witness ==
    /\ pc = "exited" /\ runs = MaxRuns /\ queue # <<>>
    /\ \E t \in TaskIds : pre[t].weekly = <<"W1">>

\* C7: when the process of a run has ended, every discovered task is in a
\* terminal state, Skipped or Linked, and the process ended normally.
C7_BatchCompletes ==
    (pc = "exited" /\ ConfigOk)
    => /\ lastExit = "0"
       /\ \A t \in Discovered : outcome[t] \in {"Skipped", "Linked"}

\* C8: a task that an earlier run failed and that still has its due date and
\* an empty weekly relation is selected by the next run whose discovery
\* succeeds.
C8_FailedRetried ==
    \A t \in failed :
        (DiscoveryOk /\ tasks[t].due /\ pre[t].weekly = <<>>)
        => t \in Discovered

\* C9: with runs at most Cadence apart, a run whose discovery succeeds
\* returns every task that has a due date and an empty weekly relation and
\* was modified at or after the start of the run before it.
C9_WindowCoverage ==
    \A t \in TaskIds :
        (DiscoveryOk /\ tasks[t].due /\ pre[t].weekly = <<>>
                     /\ tasks[t].edited >= prevRun)
        => t \in Discovered

\* a task modified a full cadence before the run is returned by it
C9_Witness ==
    /\ DiscoveryOk /\ prevRun > 0 /\ now - prevRun = Cadence
    /\ \E t \in Discovered : tasks[t].edited = prevRun

\* C10: a run whose discovery fails holds no task, issues no further
\* request, changes no relation and ends with exit status 0.
C10_DiscoveryFailureNoOp ==
    (Running /\ ~reqs[1].ok)
    => /\ queue = <<>> /\ Len(reqs) = 1
       /\ pc = "exited" /\ lastExit = "0"
       /\ \A t \in TaskIds : Relations(tasks[t]) = pre[t]

\* discovery failed while a task was waiting to be linked
C10_Witness ==
    /\ Running /\ ~reqs[1].ok
    /\ \E t \in TaskIds : Eligible(tasks[t], now)

\* the relation of a record or the payload field of a request, by resolver
Field(r, op) == IF op = "weekly" THEN r.weekly ELSE r.monthly
Other(op) == IF op = "weekly" THEN "monthly" ELSE "weekly"

\* C11: a resolver query that fails acts as one with no match: it returns no
\* id, the monthly query still follows a failed weekly one, a PATCH is issued
\* exactly when the other resolver returned an id and names that relation
\* only, the relation of the failed query keeps its value, and the task is
\* Linked (the loop has moved on) by the time the process ends.
C11_ResolverFailure ==
    \A t \in Discovered : \A op \in {"weekly", "monthly"} :
        \A k \in ReqsOf(t, op) :
            ~reqs[k].ok
            => /\ reqs[k].id = NoId
               /\ (op = "weekly" /\ ~(pc = "monthly" /\ queue[i] = t))
                    => ReqsOf(t, "monthly") # {}
               /\ \A j \in ReqsOf(t, "patch") : Field(reqs[j], op) = NoId
               /\ Field(tasks[t], op) = Field(pre[t], op)
               /\ outcome[t] = "Linked"
                    => (Patched(t) <=> Resolved(t, Other(op)) # NoId)
               /\ pc = "exited" => outcome[t] = "Linked"

\* the weekly query of a task failed although its record exists; the monthly
\* query followed, and the PATCH set the monthly relation alone
C11_Witness ==
    \E t \in Discovered :
        /\ \E k \in ReqsOf(t, "weekly") : ~reqs[k].ok
        /\ Matches(weeklyDB, extracted[t].week_text, extracted[t].year) # {}
        /\ outcome[t] = "Linked"
        /\ \E j \in ReqsOf(t, "patch") : reqs[j].ok /\ reqs[j].weekly = NoId
        /\ tasks[t].monthly = <<"M1">> /\ tasks[t].weekly = <<>>

\* a step of the process, as opposed to a user's edit or the passing of time
ProgramStep == pc # "idle" \/ pc' # "idle"

\* record b is record a but for its relations and the store's own stamp
SameButLinks(a, b) ==
    [a EXCEPT !.weekly = b.weekly, !.monthly = b.monthly, !.edited = b.edited] = b

\* C12: no step of the process creates or deletes a record or changes the
\* Weekly or Monthly collection; in the task collection it changes nothing
\* but the weekly and monthly relations (and with them the store's
\* last_edited_time stamp), and those only of tasks this run's discovery
\* returned.
C12_StoreFrame ==
    [][ProgramStep
        => /\ weeklyDB' = weeklyDB /\ monthlyDB' = monthlyDB
           /\ DOMAIN tasks' = DOMAIN tasks
           /\ \A t \in TaskIds :
                /\ SameButLinks(tasks[t], tasks'[t])
                /\ tasks'[t] # tasks[t] => t \in Elems(queue)]_vars

\* a PATCH went through and changed a relation of a task, while another
\* task stands in the collection
C12_Witness ==
    \E t \in Discovered :
        /\ \E k \in ReqsOf(t, "patch") : reqs[k].ok
        /\ Relations(tasks[t]) # pre[t]
        /\ tasks[t].edited = now /\ now > 0
        /\ TaskIds \ Discovered # {}

\* C13: after a PATCH that went through, each relation the payload names
\* holds the one id resolved for it, whatever it held before, and the other
\* keeps its value; no relation this run wrote holds more than one element.
C13_ReplaceNotAppend ==
    \A t \in Discovered : \A k \in ReqsOf(t, "patch") :
        reqs[k].ok
        => /\ reqs[k].weekly # NoId
                => tasks[t].weekly = <<Resolved(t, "weekly")>>
           /\ reqs[k].monthly # NoId
                => tasks[t].monthly = <<Resolved(t, "monthly")>>
           /\ Len(tasks[t].weekly) <= 1 /\ Len(tasks[t].monthly) <= 1

\* a monthly relation a user had set to another record was overwritten
C13_Witness ==
    \E t \in Discovered : \E k \in ReqsOf(t, "patch") :
        /\ reqs[k].ok
        /\ pre[t].monthly = <<"M2">>
        /\ tasks[t].monthly = <<"M1">>

\* C14: a process ends with status 1 exactly when a required variable is
\* missing, and then it has issued no request; every other process ends with
\* status 0.
C14_ConfigGate ==
    pc = "exited"
    => IF ConfigOk THEN lastExit = "0"
       ELSE lastExit = "1" /\ reqs = <<>>

\* the position of task t in the discovery result
Position(t) == CHOOSE k \in 1..Len(queue) : queue[k] = t

\* C15: the log of a run starts with its one discovery query; a weekly query
\* opens the requests of a task, a monthly query directly follows the weekly
\* query of the same task, a PATCH directly follows the monthly query of the
\* same task; tasks are served in the order of the discovery result; no
\* request of a kind is issued twice for a task, failed or not; and a task
\* whose extraction returned the three fields has, once it is Linked, exactly
\* one weekly and one monthly query.
C15_Sequencing ==
    Running
    => /\ reqs[1].op = "discover"
       /\ \A k \in 2..Len(reqs) :
            /\ reqs[k].op \in {"weekly", "monthly", "patch"}
            /\ reqs[k].task \in Discovered
            /\ reqs[k].op = "weekly"
                 => \/ k = 2
                    \/ /\ reqs[k - 1].op \in {"monthly", "patch"}
                       /\ Position(reqs[k - 1].task) < Position(reqs[k].task)
            /\ reqs[k].op = "monthly"
                 => reqs[k - 1].op = "weekly" /\ reqs[k - 1].task = reqs[k].task
            /\ reqs[k].op = "patch"
                 => reqs[k - 1].op = "monthly" /\ reqs[k - 1].task = reqs[k].task
       /\ \A t \in Discovered : \A op \in {"weekly", "monthly", "patch"} :
            Cardinality(ReqsOf(t, op)) <= 1
       /\ \A t \in Discovered :
            (AllTruthy(extracted[t]) /\ outcome[t] = "Linked")
            => /\ Cardinality(ReqsOf(t, "weekly")) = 1
               /\ Cardinality(ReqsOf(t, "monthly")) = 1

\* a run served two tasks, one of whose requests failed, and has ended
C15_Witness ==
    /\ pc = "exited" /\ Len(queue) = 2
    /\ \A t \in Discovered : outcome[t] = "Linked" /\ Patched(t)
    /\ \E k \in 2..Len(reqs) : ~reqs[k].ok /\ reqs[k].task = queue[1]

\* the relation rel holds exactly the id of one record of db with that key
LinksTo(rel, db, title, year) ==
    \E k \in Matches(db, title, year) : rel = <<db[k].id>>

\* every request of the run that concerns task t went through
AllCallsOk(t) ==
    /\ reqs[1].ok
    /\ \A k \in 2..Len(reqs) : reqs[k].task = t => reqs[k].ok

\* C16: a relation this run has set on a task holds the id of a record whose
\* title and year are the text and the year extracted from the task in this
\* run; and a task so extracted, for which both records exist and all of
\* whose calls went through, stands linked to both when the process ends.
C16_LinkCorrectness ==
    \A t \in Discovered :
        LET e == extracted[t] IN
        /\ \A k \in ReqsOf(t, "patch") :
             reqs[k].ok
             => /\ reqs[k].weekly # NoId
                     => LinksTo(tasks[t].weekly, weeklyDB, e.week_text, e.year)
                /\ reqs[k].monthly # NoId
                     => LinksTo(tasks[t].monthly, monthlyDB, e.month_text, e.year)
        /\ tasks[t].weekly # pre[t].weekly
             => LinksTo(tasks[t].weekly, weeklyDB, e.week_text, e.year)
        /\ tasks[t].monthly # pre[t].monthly
             => LinksTo(tasks[t].monthly, monthlyDB, e.month_text, e.year)
        /\ (/\ pc = "exited" /\ AllTruthy(e) /\ AllCallsOk(t)
            /\ Matches(weeklyDB, e.week_text, e.year) # {}
            /\ Matches(monthlyDB, e.month_text, e.year) # {})
           => /\ LinksTo(tasks[t].weekly, weeklyDB, e.week_text, e.year)
              /\ LinksTo(tasks[t].monthly, monthlyDB, e.month_text, e.year)

\* a task extracted to (2025, "41", "October") ended its run linked to W1 and
\* M1, while a record of the same title and another year stands in a
\* collection
C16_Witness ==
    \E t \in Discovered :
        /\ pc = "exited" /\ AllCallsOk(t)
        /\ extracted[t].year = 2025 /\ extracted[t].week_text = "41"
        /\ extracted[t].month_text = "October"
        /\ tasks[t].weekly = <<"W1">> /\ tasks[t].monthly = <<"M1">>
        /\ \E k \in 1..Len(monthlyDB) :
             monthlyDB[k].title = "October" /\ monthlyDB[k].year # 2025

\* the requests of this run that failed
FailedRequests == {k \in 1..Len(reqs) : ~reqs[k].ok}

\* no request failed and no user edited a task before this run started
UndisturbedBefore == events = Cardinality(FailedRequests)

\* C17: in a run that follows a run all of whose calls went through, with no
\* user edit in between and a store of unique keys, every task's weekly and
\* monthly relation is at all times what it was when the run started.
C17_BatchIdempotence ==
    (Running /\ runs >= 2 /\ UndisturbedBefore)
    => \A t \in TaskIds : Relations(tasks[t]) = pre[t]

\* the second run has ended: it passed over a task the first run had linked
\* to both records and patched again, with success, a task the first run
\* had linked to its monthly record alone
C17_Witness ==
    /\ pc = "exited" /\ runs = 2 /\ events = 0
    /\ \E t \in TaskIds \ Discovered :
         pre[t] = [weekly |-> <<"W1">>, monthly |-> <<"M1">>]
    /\ \E t \in Discovered :
         /\ pre[t] = [weekly |-> <<>>, monthly |-> <<"M2">>]
         /\ \E k \in ReqsOf(t, "patch") : reqs[k].ok

\* the loop has finished with task t
Passed(t) == t \in Discovered /\ Position(t) < i

\* the requests of this run that concern t, as (kind, payload), in order
RequestsOf(t) ==
    LET mine == SelectSeq(reqs, LAMBDA r : r.task = t)
    IN  [k \in 1..Len(mine) |-> <<mine[k].op, mine[k].id, mine[k].weekly,
                                  mine[k].monthly>>]

\* t and u hold the same year, week and month and started the run alike
Twins(t, u) ==
    /\ tasks[t].year = tasks[u].year /\ tasks[t].week = tasks[u].week
    /\ tasks[t].month = tasks[u].month
    /\ tasks[t].due = tasks[u].due /\ pre[t] = pre[u]

\* C18: a discovered task whose title is absent or an empty list is not
\* stopped at the title read: the loop extracts its fields, and it is Skipped
\* exactly when a field is missing; beside a titled task of the same fields,
\* with every call going through, it ends in the same state after the same
\* queries and the same PATCH, holding the same relations.
C18_TitleOptional ==
    \A t \in Discovered :
        tasks[t].title \in {"absent", "empty"}
        => /\ Passed(t)
                => /\ extracted[t] = extract_task_properties(tasks[t])
                   /\ outcome[t] = IF MissingField(t) THEN "Skipped" ELSE "Linked"
           /\ \A u \in Discovered :
                (/\ tasks[u].title = "text" /\ Twins(t, u)
                 /\ Passed(t) /\ Passed(u) /\ AllCallsOk(t) /\ AllCallsOk(u))
                => /\ outcome[t] = outcome[u]
                   /\ RequestsOf(t) = RequestsOf(u)
                   /\ Relations(tasks[t]) = Relations(tasks[u])

\* an untitled task and a titled one of the same fields both stand linked
\* to W1 and M1
C18_Witness ==
    \E t, u \in Discovered :
        /\ tasks[t].title \in {"absent", "empty"} /\ tasks[u].title = "text"
        /\ Twins(t, u) /\ Passed(t) /\ Passed(u)
        /\ AllCallsOk(t) /\ AllCallsOk(u)
        /\ outcome[t] = "Linked"
        /\ Relations(tasks[t]) = [weekly |-> <<"W1">>, monthly |-> <<"M1">>]

\* the task record holds a year that is a number other than 0, a week that is
\* a text other than "" and a month that is a text other than ""
AllThreePresent(rec) ==
    /\ rec.year.shape = "number" /\ rec.year.num # 0
    /\ rec.week.shape = "string" /\ rec.week.str # ""
    /\ rec.month.shape = "string" /\ rec.month.str # ""

\* C20: no resolver query and no PATCH is issued for a task that ended in
\* Skipped; a task a resolver was queried for holds all three fields, was
\* extracted to them, and is not Skipped.
C20_SkipPrecedesResolution ==
    \A t \in Discovered :
        /\ outcome[t] = "Skipped" => ~Queried(t) /\ ~Patched(t)
        /\ (Queried(t) \/ Patched(t) \/ (pc = "weekly" /\ queue[i] = t))
             => /\ AllThreePresent(tasks[t])
                /\ extracted[t].year = tasks[t].year.num
                /\ extracted[t].week_text = tasks[t].week.str
                /\ extracted[t].month_text = tasks[t].month.str
                /\ outcome[t] # "Skipped"

\* the run skipped a task with a missing field without a request, and went
\* on to query both resolvers for the next task
C20_Witness ==
    \E t, u \in Discovered :
        /\ Position(t) < Position(u)
        /\ outcome[t] = "Skipped" /\ ~AllThreePresent(tasks[t])
        /\ RequestsOf(t) = <<>>
        /\ ReqsOf(u, "weekly") # {} /\ ReqsOf(u, "monthly") # {}

\* this run has issued a PATCH
PatchIssued == \E k \in 1..Len(reqs) : reqs[k].op = "patch"

\* C19: under a schedule that goes on for ever, with no user edit, an
\* unchanging store and every call going through, there is a run after which
\* no run issues a PATCH.
C19_Quiescence == <>[](~PatchIssued)

\* a PATCH of this run that names the monthly relation alone, with the id
\* that relation held when the run started
Redundant(r) ==
    /\ r.weekly = NoId
    /\ pre[r.task].weekly = <<>>
    /\ pre[r.task].monthly = <<r.monthly>>

\* C19, amended: with runs a cadence apart, from the third run on no run
\* changes a relation of any task, and every PATCH it issues names the
\* monthly relation alone, with the id that relation already holds. (The
\* second run may still link a task: one modified in the minutes before a
\* first run that aborted ahead of it.)
C19_RelationsSettle ==
    (Running /\ runs >= 3)
    => /\ \A t \in TaskIds : Relations(tasks[t]) = pre[t]
       /\ \A k \in 2..Len(reqs) : reqs[k].op = "patch" => Redundant(reqs[k])

\* a third or later run has patched, with the id it already held, a task
\* whose last modification was the PATCH of the run before, while another
\* task was linked by the second run only, the first having aborted ahead
\* of it
C19_Witness ==
    /\ runs >= 3 /\ pc = "exited"
    /\ \E t \in Discovered : \E k \in ReqsOf(t, "patch") :
         /\ reqs[k].ok /\ Redundant(reqs[k])
         /\ tasks[t].edited = now

\* the second run linked a task that the first run, aborting at a null
\* title ahead of it, had left unprocessed
C19_SecondRunLinks ==
    /\ runs = 2 /\ pc = "exited"
    /\ \E t \in Discovered :
         /\ pre[t].weekly = <<>> /\ tasks[t].weekly = <<"W1">>
         /\ \E u \in TaskIds \ Discovered : tasks[u].title = "null"

====
